---- MODULE Spec2Model ----
(***************************************************************************)
(* Model of renderer::SubsurfaceSampler                                    *)
(* (src/appleseed/renderer/kernel/lighting/subsurfacesampler.h).           *)
(*                                                                         *)
(* Geometry lives on an integer grid: points and vectors are triples of    *)
(* integers, the shading basis of the outgoing point is the standard       *)
(* basis, and std::sqrt is the floor of the real root.  Quantities of type *)
(* double that carry probabilities are modelled by Dbl values: zero,       *)
(* infinity, NaN, or a positive rational times a power of two whose        *)
(* magnitude is kept within the exponent range of an IEEE-754 binary64.    *)
(* Mantissa rounding is not modelled, range effects (underflow to zero,    *)
(* overflow to infinity, invalid operations) are.                          *)
(***************************************************************************)
EXTENDS Integers, Sequences, FiniteSets, TLC

(***************************************************************************)
(* Bounds of the model.                                                    *)
(***************************************************************************)
\* Largest number of surfaces the scene places on the probe line.
MaxSurf == 2
\* Largest number of trace() calls one recorded run of sample() may make.
MaxIter == 4

(***************************************************************************)
(* double arithmetic on non-negative values.                               *)
(***************************************************************************)
\* Exponent of the largest finite binary64 power of two.
DblMaxExp == 1023
\* Exponent of the smallest positive (subnormal) binary64, 2^-1074.
DblMinExp == 0 - 1074
\* Exponent gap from which the smaller of two positive addends is absorbed.
DblAbsorb == 64

DblZero == [k |-> "zero", n |-> 0, d |-> 1, e |-> 0]
DblInf  == [k |-> "inf",  n |-> 0, d |-> 1, e |-> 0]
DblNaN  == [k |-> "nan",  n |-> 0, d |-> 1, e |-> 0]

RECURSIVE GCD(_, _)
GCD(a, b) == IF b = 0 THEN a ELSE GCD(b, a % b)

RECURSIVE Pow2(_)
Pow2(k) == IF k <= 0 THEN 1 ELSE 2 * Pow2(k - 1)

\* Number of times 2 divides n (n > 0).
RECURSIVE TwoAdic(_)
TwoAdic(n) == IF n % 2 = 0 THEN 1 + TwoAdic(n \div 2) ELSE 0

\* floor(log2(n / d)) for n, d > 0.
RECURSIVE FloorLog2(_, _)
FloorLog2(n, d) ==
    IF n < d THEN FloorLog2(2 * n, d) - 1
    ELSE IF n >= 2 * d THEN FloorLog2(n, 2 * d) + 1
    ELSE 0

\* The double nearest to (n / d) * 2^e, as far as its range is concerned.
DblMake(n, d, e) ==
    IF n = 0 THEN DblZero
    ELSE LET g  == GCD(n, d)
             n1 == n \div g
             d1 == d \div g
             tn == TwoAdic(n1)
             td == TwoAdic(d1)
             n2 == n1 \div Pow2(tn)
             d2 == d1 \div Pow2(td)
             e2 == e + tn - td
             mag == e2 + FloorLog2(n2, d2)
         IN  IF mag > DblMaxExp THEN DblInf
             ELSE IF mag < DblMinExp - 1 THEN DblZero
             ELSE [k |-> "fin", n |-> n2, d |-> d2, e |-> e2]

DblIsFinitePos(a) == a.k = "fin"

DblMag(a) == a.e + FloorLog2(a.n, a.d)

\* a <= 1.0 for a finite positive a.
DblLeOne(a) == a.k = "fin" /\ (DblMag(a) < 0 \/ (a.e = 0 /\ a.n = 1 /\ a.d = 1))

DblMul(a, b) ==
    IF a.k = "nan" \/ b.k = "nan" THEN DblNaN
    ELSE IF (a.k = "zero" /\ b.k = "inf") \/ (a.k = "inf" /\ b.k = "zero") THEN DblNaN
    ELSE IF a.k = "zero" \/ b.k = "zero" THEN DblZero
    ELSE IF a.k = "inf" \/ b.k = "inf" THEN DblInf
    ELSE DblMake(a.n * b.n, a.d * b.d, a.e + b.e)

DblDiv(a, b) ==
    IF a.k = "nan" \/ b.k = "nan" THEN DblNaN
    ELSE IF (a.k = "zero" /\ b.k = "zero") \/ (a.k = "inf" /\ b.k = "inf") THEN DblNaN
    ELSE IF a.k = "zero" \/ b.k = "inf" THEN DblZero
    ELSE IF a.k = "inf" \/ b.k = "zero" THEN DblInf
    ELSE DblMake(a.n * b.d, a.d * b.n, a.e - b.e)

DblAdd(a, b) ==
    IF a.k = "nan" \/ b.k = "nan" THEN DblNaN
    ELSE IF a.k = "inf" \/ b.k = "inf" THEN DblInf
    ELSE IF a.k = "zero" THEN b
    ELSE IF b.k = "zero" THEN a
    ELSE IF a.e - b.e >= DblAbsorb THEN a
    ELSE IF b.e - a.e >= DblAbsorb THEN b
    ELSE LET m == IF a.e < b.e THEN a.e ELSE b.e
         IN  DblMake(a.n * b.d * Pow2(a.e - m) + b.n * a.d * Pow2(b.e - m),
                     a.d * b.d, m)

\* The literals 2.0, 1.0, 0.5 and 0.25.
Dbl2_0  == DblMake(1, 1, 1)
Dbl1_0  == DblMake(1, 1, 0)
Dbl0_5  == DblMake(1, 1, 0 - 1)
Dbl0_25 == DblMake(1, 1, 0 - 2)

(***************************************************************************)
(* Vectors, bases (foundation::Vector3d, foundation::Basis3d).             *)
(***************************************************************************)
Abs(x) == IF x < 0 THEN 0 - x ELSE x

VAdd(a, b) == <<a[1] + b[1], a[2] + b[2], a[3] + b[3]>>
VSub(a, b) == <<a[1] - b[1], a[2] - b[2], a[3] - b[3]>>
VScale(c, a) == <<c * a[1], c * a[2], c * a[3]>>
VNeg(a) == VScale(0 - 1, a)
Dot(a, b) == a[1] * b[1] + a[2] * b[2] + a[3] * b[3]

\* std::sqrt on the grid: the floor of the root; 0 stands for the NaN of a
\* negative argument, which sample() never passes (see C1_EarlyRejection).
ISqrt(x) == IF x <= 0 THEN 0 ELSE CHOOSE r \in 0..x : r * r <= x /\ (r + 1) * (r + 1) > x

\* foundation::square_norm and foundation::norm.
SquareNorm(a) == Dot(a, a)
Norm(a) == ISqrt(SquareNorm(a))

\* foundation::project(v, n): v without its component along the unit vector n.
Project(v, n) == VSub(v, VScale(Dot(v, n), n))

\* foundation::Basis3d(normal, u, v) and its accessors.
Basis3d(normal, u, v) == [normal |-> normal, tangent_u |-> u, tangent_v |-> v]

\* Basis3d::transform_to_parent: v[0] * u + v[1] * n + v[2] * v.
TransformToParent(basis, p) ==
    VAdd(VAdd(VScale(p[1], basis.tangent_u), VScale(p[2], basis.normal)),
         VScale(p[3], basis.tangent_v))

(***************************************************************************)
(* The outgoing shading point (the argument outgoing_point of sample()).   *)
(***************************************************************************)
Materials == {"M0", "M1"}
OutgoingMaterial == "M0"
OutgoingPosition == <<0, 0, 0>>
OutgoingShadingBasis == Basis3d(<<0, 0, 1>>, <<1, 0, 0>>, <<0, 1, 0>>)
OutgoingTime == 7
OutgoingDepth == 2

(***************************************************************************)
(* The diffusion profile (BSSRDF) and its samples.                         *)
(***************************************************************************)
\* Outcomes of BSSRDF::sample(): it declines, or gives a point, rmax2 and channel.
NoSample == [ok |-> FALSE, point |-> <<0, 0>>, rmax2 |-> 0, channel |-> 0]
\* The samples it may give, as <<point, rmax2, channel>>: on the axis (h = 1), on
\* the sphere (h = 0), off the axis (h = 1), and beyond rmax.
SamplePoints ==
    {<<<<0, 0>>, 1, 0>>, <<<<1, 0>>, 1, 1>>, <<<<1, 0>>, 2, 0>>, <<<<1, 1>>, 1, 1>>}
BSSRDFSamples ==
    {[ok |-> TRUE, point |-> q[1], rmax2 |-> q[2], channel |-> q[3]] : q \in SamplePoints}

\* BSSRDF::evaluate_pdf(data, channel, radius): an exponential falloff 2^(-k r),
\* gentle for channel 0 and steep for channel 1.
Falloff(channel) == IF channel = 0 THEN 1 ELSE 600
evaluate_pdf(channel, radius) == DblMake(1, 1, 0 - Falloff(channel) * radius)

(***************************************************************************)
(* The scene along the probe line, and Intersector::trace().               *)
(***************************************************************************)
\* ObjectInstance::Side, and the material pairs a surface can carry.
SurfKinds ==
    << [side |-> "FrontSide", material |-> "M0", opposite_material |-> "M1"],
       [side |-> "FrontSide", material |-> "M1", opposite_material |-> "M0"],
       [side |-> "BackSide",  material |-> "M0", opposite_material |-> "M1"],
       [side |-> "BackSide",  material |-> "M1", opposite_material |-> "M0"] >>

\* Distances from the entry point at which a surface may cross the probe line:
\* the longest probe segment has length 2 (h = 1); 3 lies beyond its exit point.
SurfDists == 0..3

Surfaces == [dist : SurfDists, kind : 1..Len(SurfKinds)]
SurfKey(sf) == sf.dist * Len(SurfKinds) + sf.kind

\* Scenes: up to MaxSurf surfaces, listed by distance (coincident ones allowed).
Scenes ==
    UNION {{sc \in [1..m -> Surfaces] :
               \A i \in 1..(m - 1) : SurfKey(sc[i]) < SurfKey(sc[i + 1])} :
           m \in 0..MaxSurf}

\* Shading normals of the scene's surfaces, in thirds: <<0,0,3>> is (0,0,1),
\* <<2,2,1>> is (2/3, 2/3, 1/3).
SceneNormals == {<<0, 0, 3>>, <<2, 2, 1>>}

\* |dot(axis, normal)| as a double, for a grid axis and a normal in thirds.
AbsDot(axis, normal) == DblMake(Abs(Dot(axis, normal)), 3, 0)

\* ShadingPoint::clear(): a shading point that holds no hit.
ClearedPoint ==
    [hit |-> FALSE, surf |-> 0, point |-> <<0, 0, 0>>, shading_normal |-> <<0, 0, 0>>,
     side |-> "FrontSide", material |-> "none", opposite_material |-> "none"]

\* The shading point trace() fills for surface i of the scene.
HitPoint(sc, normal, entry, dir, i) ==
    [hit |-> TRUE, surf |-> i, point |-> VAdd(entry, VScale(sc[i].dist, dir)),
     shading_normal |-> normal,
     side |-> SurfKinds[sc[i].kind].side,
     material |-> SurfKinds[sc[i].kind].material,
     opposite_material |-> SurfKinds[sc[i].kind].opposite_material]

\* Signed distance along the ray of surface i.
RayT(sc, entry, dir, ray, i) ==
    Dot(VSub(VAdd(entry, VScale(sc[i].dist, dir)), ray.m_org), ray.m_dir)

\* Whether trace() may report surface i: it lies within [tmin, tmax] of the ray
\* and is not the surface of the parent shading point.
InRange(sc, entry, dir, ray, parent, i) ==
    /\ ~(parent.hit /\ parent.surf = i)
    /\ RayT(sc, entry, dir, ray, i) >= ray.m_tmin
    /\ RayT(sc, entry, dir, ray, i) <= ray.m_tmax

\* The surfaces in range that no other surface in range precedes along the ray.
Nearest(sc, entry, dir, ray, parent) ==
    {j \in DOMAIN sc :
        /\ InRange(sc, entry, dir, ray, parent, j)
        /\ \A l \in DOMAIN sc :
              InRange(sc, entry, dir, ray, parent, l)
                  => RayT(sc, entry, dir, ray, j) <= RayT(sc, entry, dir, ray, l)}

\* Intersector::trace(ray, shading_point, parent): the set of shading points it
\* may fill, each a nearest surface in range; the empty set when it returns false.
trace(sc, normal, entry, dir, ray, parent) ==
    {HitPoint(sc, normal, entry, dir, i) : i \in Nearest(sc, entry, dir, ray, parent)}

\* ShadingContext::execute_osl_bump: changes the shading normal of the point.
execute_osl_bump(sp) ==
    [sp EXCEPT !.shading_normal = <<sp.shading_normal[2], sp.shading_normal[3], sp.shading_normal[1]>>]

(***************************************************************************)
(* SubsurfaceSampler::pick_sampling_basis.  s is in hundredths.            *)
(***************************************************************************)
\* The first threshold taken as strict.
pick_sampling_basis_Mut(shading_basis, s) ==
    LET n == shading_basis.normal
        u == shading_basis.tangent_u
        v == shading_basis.tangent_v
    IN  IF s < 50
        THEN [axis |-> "NAxis", basis |-> Basis3d(n, u, v), basis_pdf |-> Dbl0_5]
        ELSE IF s <= 75
        THEN [axis |-> "UAxis", basis |-> Basis3d(u, v, n), basis_pdf |-> Dbl0_25]
        ELSE [axis |-> "VAxis", basis |-> Basis3d(v, n, u), basis_pdf |-> Dbl0_25]

pick_sampling_basis(shading_basis, s) ==
    LET n == shading_basis.normal
        u == shading_basis.tangent_u
        v == shading_basis.tangent_v
    IN  IF s <= 50
        THEN [axis |-> "NAxis", basis |-> Basis3d(n, u, v), basis_pdf |-> Dbl0_5]
        ELSE IF s <= 75
        THEN [axis |-> "UAxis", basis |-> Basis3d(u, v, n), basis_pdf |-> Dbl0_25]
        ELSE [axis |-> "VAxis", basis |-> Basis3d(v, n, u), basis_pdf |-> Dbl0_25]

(***************************************************************************)
(* foundation::mis_power2 and SubsurfaceSampler::compute_mis_weight.       *)
(***************************************************************************)
mis_power2(q1, q2, q3) ==
    LET q1_pow == DblMul(q1, q1)
        q2_pow == DblMul(q2, q2)
        q3_pow == DblMul(q3, q3)
    IN  DblDiv(q1_pow, DblAdd(DblAdd(q1_pow, q2_pow), q3_pow))

\* The density another axis of the basis would have given the same displacement.
AxisPdf(weight, channel, d, axis, incoming_normal) ==
    DblMul(DblMul(weight, evaluate_pdf(channel, Norm(Project(d, axis)))),
           AbsDot(axis, incoming_normal))

\* The three terms compute_mis_weight hands to mis_power2.
mis_terms(channel, basis, axis, sample_pdf, outgoing_point, incoming_point, incoming_normal) ==
    LET d == VSub(incoming_point, outgoing_point)
    IN  CASE axis = "NAxis" ->
               << DblMul(Dbl2_0, sample_pdf),
                  AxisPdf(Dbl0_25, channel, d, basis.tangent_u, incoming_normal),
                  AxisPdf(Dbl0_25, channel, d, basis.tangent_v, incoming_normal) >>
          [] axis = "UAxis" ->
               << sample_pdf,
                  DblMul(Dbl2_0, AxisPdf(Dbl0_5, channel, d, basis.normal, incoming_normal)),
                  AxisPdf(Dbl0_25, channel, d, basis.tangent_v, incoming_normal) >>
          [] axis = "VAxis" ->
               << sample_pdf,
                  DblMul(Dbl2_0, AxisPdf(Dbl0_5, channel, d, basis.normal, incoming_normal)),
                  AxisPdf(Dbl0_25, channel, d, basis.tangent_u, incoming_normal) >>

compute_mis_weight(channel, basis, axis, sample_pdf, outgoing_point, incoming_point, incoming_normal) ==
    LET q == mis_terms(channel, basis, axis, sample_pdf, outgoing_point,
                       incoming_point, incoming_normal)
    IN  mis_power2(q[1], q[2], q[3])

(***************************************************************************)
(* State of one call of SubsurfaceSampler::sample().                       *)
(***************************************************************************)
VARIABLES
    pc,                     \* "start", "pick", "trace", "done" (and "basis",
                            \* "picked" when pick_sampling_basis is run on its own)
    scene,                  \* the surfaces along the probe line
    scene_normal,           \* the shading normal of the scene's surfaces
    with_osl,               \* built with APPLESEED_WITH_OSL
    has_osl_surface,        \* Material::has_osl_surface() of the outgoing material
    bssrdf_sample,          \* the BSSRDFSample
    bssrdf_sample_pdf,
    s,                      \* the scalar drawn for the axis, in hundredths
    sampling_axis,
    sampling_basis,
    sampling_basis_pdf,
    h,
    entry_point,
    exit_point,
    probe_ray,
    shading_points,         \* the two scratch shading points
    shading_point_index,
    parent_shading_point,   \* NullPoint, or the index of the slot it points to
    failed_asserts,         \* the source lines of the assert()s that have failed
    iter,                   \* trace() calls made so far
    log                     \* draws, trace() calls and visitor.visit() calls, in order

vars ==
    << pc, scene, scene_normal, with_osl, has_osl_surface, bssrdf_sample,
       bssrdf_sample_pdf, s, sampling_axis, sampling_basis, sampling_basis_pdf, h,
       entry_point, exit_point, probe_ray, shading_points, shading_point_index,
       parent_shading_point, failed_asserts, iter, log >>

\* The null pointer, among the slot indices 0 and 1.
NullPoint == 0 - 1

NoRay ==
    [m_org |-> <<0, 0, 0>>, m_dir |-> <<0, 0, 0>>, m_tmin |-> 0, m_tmax |-> 0,
     m_time |-> 0, m_flags |-> "none", m_depth |-> 0]

\* Scalars next_double2() may return for the axis when sample() runs, in hundredths.
AxisDraws == {30, 60, 90}

\* The log with the events of a step added.
Logged(events) == log \o events

\* The locals of sample() before it runs.
InitLocals ==
    /\ bssrdf_sample = NoSample
    /\ bssrdf_sample_pdf = DblZero
    /\ sampling_axis = "none"
    /\ sampling_basis = OutgoingShadingBasis
    /\ sampling_basis_pdf = DblZero
    /\ h = 0
    /\ entry_point = <<0, 0, 0>>
    /\ exit_point = <<0, 0, 0>>
    /\ probe_ray = NoRay
    /\ shading_points = [i \in {0, 1} |-> ClearedPoint]
    /\ shading_point_index = 0
    /\ parent_shading_point = NullPoint
    /\ failed_asserts = {}
    /\ iter = 0
    /\ log = << >>

\* The scene, the build and the material are given; has_osl_surface() is only
\* read in a build with OSL.
Init ==
    /\ scene \in Scenes
    /\ scene_normal \in SceneNormals
    /\ with_osl \in BOOLEAN
    /\ has_osl_surface \in (IF with_osl THEN BOOLEAN ELSE {FALSE})
    /\ InitLocals
    /\ pc = "start"
    /\ s = 0

(***************************************************************************)
(* sample(), lines 121-137: sample the profile, reject points too far away.*)
(***************************************************************************)
\* The rejection test with a bound one too large.
TooFar_Mut(radius2, rmax2) == radius2 > rmax2 + 1

TooFar(radius2, rmax2) == radius2 > rmax2

SampleProfile ==
    /\ pc = "start"
    /\ \E smp \in {NoSample} \cup BSSRDFSamples :
         LET point   == smp.point
             radius2 == point[1] * point[1] + point[2] * point[2]
             rmax2   == smp.rmax2
         IN  /\ bssrdf_sample' = smp
             /\ IF ~smp.ok
                THEN /\ pc' = "done"
                     /\ UNCHANGED bssrdf_sample_pdf
                ELSE IF TooFar(radius2, rmax2)
                THEN /\ pc' = "done"
                     /\ UNCHANGED bssrdf_sample_pdf
                ELSE /\ pc' = "pick"
                     /\ bssrdf_sample_pdf' = evaluate_pdf(smp.channel, ISqrt(radius2))
    /\ UNCHANGED << scene, scene_normal, with_osl, has_osl_surface, s, sampling_axis,
                    sampling_basis, sampling_basis_pdf, h, entry_point, exit_point,
                    probe_ray, shading_points, shading_point_index,
                    parent_shading_point, failed_asserts, iter, log >>

(***************************************************************************)
(* sample(), lines 139-175: pick the basis, build the probe ray.           *)
(***************************************************************************)
BuildProbe ==
    /\ pc = "pick"
    /\ \E sv \in AxisDraws :
         LET picked  == pick_sampling_basis(OutgoingShadingBasis, sv)
             point   == bssrdf_sample.point
             radius2 == point[1] * point[1] + point[2] * point[2]
             rmax2   == bssrdf_sample.rmax2
             hh      == ISqrt(rmax2 - radius2)
             entry   == VAdd(OutgoingPosition,
                             TransformToParent(picked.basis, <<point[1], hh, point[2]>>))
             exit    == VAdd(OutgoingPosition,
                             TransformToParent(picked.basis, <<point[1], 0 - hh, point[2]>>))
         IN  /\ s' = sv
             /\ sampling_axis' = picked.axis
             /\ sampling_basis' = picked.basis
             /\ sampling_basis_pdf' = picked.basis_pdf
             /\ failed_asserts' = (IF rmax2 >= radius2 THEN {} ELSE {152})
                                    \cup (IF Norm(VSub(exit, entry)) = 2 * hh THEN {} ELSE {160})
             /\ h' = hh
             /\ entry_point' = entry
             /\ exit_point' = exit
             /\ probe_ray' = [m_org |-> entry, m_dir |-> VNeg(picked.basis.normal),
                              m_tmin |-> 0, m_tmax |-> 2 * hh, m_time |-> OutgoingTime,
                              m_flags |-> "ProbeRay", m_depth |-> OutgoingDepth + 1]
    /\ shading_points' = [i \in {0, 1} |-> ClearedPoint]
    /\ shading_point_index' = 0
    /\ parent_shading_point' = NullPoint
    /\ log' = Logged(<< [ev |-> "draw", what |-> "axis"] >>)
    /\ pc' = "trace"
    /\ UNCHANGED << scene, scene_normal, with_osl, has_osl_surface, bssrdf_sample,
                    bssrdf_sample_pdf, iter >>

(***************************************************************************)
(* sample(), lines 178-241: one iteration of the tracing loop.             *)
(***************************************************************************)
\* The loop going on after a miss as after a hit.
TraceBranch_Mut(found) == "trace"

\* Lines 183-187: the loop goes on after a hit and is left on a miss.
TraceBranch(found) == IF found THEN "trace" ELSE "done"

\* The material of the hit taken whatever its side.
IncomingMaterial_Mut(sp) == sp.material

\* Lines 190-193: the material on the side of the surface the ray hit.
IncomingMaterial(sp) ==
    IF sp.side = "BackSide" THEN sp.opposite_material ELSE sp.material

\* The bump shader run for every hit, matching or not.
RunsBump_Mut(matching, osl_build, osl_surface) == osl_build /\ osl_surface

\* Lines 198-200: whether the bump shader runs (and draws) for a hit.
RunsBump(matching, osl_build, osl_surface) == matching /\ osl_build /\ osl_surface

\* The origin moved but the range left as it was.
AdvanceRay_Mut(ray, hit_position, exit) == [ray EXCEPT !.m_org = hit_position]

\* Lines 235-236: move the ray's origin to the hit, shrink its range to the exit.
AdvanceRay(ray, hit_position, exit) ==
    [ray EXCEPT !.m_org = hit_position, !.m_tmax = Norm(VSub(exit, hit_position))]

\* The scratch slots never swapped.
NextIndex_Mut(i) == i

\* Line 240: the other scratch slot.
NextIndex(i) == 1 - i

Trace ==
    /\ pc = "trace"
    /\ iter < MaxIter
    /\ LET idx     == shading_point_index
           \* lines 181-186: clear the slot, then trace with the parent as hint
           cleared == [shading_points EXCEPT ![idx] = ClearedPoint]
           parent  == IF parent_shading_point = NullPoint THEN ClearedPoint
                      ELSE cleared[parent_shading_point]
           hits    == trace(scene, scene_normal, entry_point, VNeg(sampling_basis.normal),
                            probe_ray, parent)
           call(sp) == [ev |-> "trace", slot |-> idx, hint |-> parent_shading_point,
                        hint_point |-> parent, ray |-> probe_ray, result |-> sp]
       IN  IF hits = {}
           THEN /\ shading_points' = cleared
                /\ pc' = TraceBranch(FALSE)
                /\ log' = Logged(<< call(ClearedPoint) >>)
                /\ UNCHANGED << probe_ray, shading_point_index, parent_shading_point >>
           ELSE \E found \in hits :
                \* lines 190-208: the material facing the ray, the bump shader
                \E incoming_point \in
                       {IF RunsBump(IncomingMaterial(found) = OutgoingMaterial,
                                    with_osl, has_osl_surface)
                        THEN execute_osl_bump(found) ELSE found} :
                LET matching == IncomingMaterial(found) = OutgoingMaterial
                    bump     == RunsBump(matching, with_osl, has_osl_surface)
                    \* lines 211-228: the probability of the sample
                    dot_nn   == AbsDot(sampling_basis.normal, incoming_point.shading_normal)
                    sample_pdf == DblMul(DblMul(bssrdf_sample_pdf, sampling_basis_pdf), dot_nn)
                    terms    == mis_terms(bssrdf_sample.channel, sampling_basis,
                                    sampling_axis, sample_pdf, OutgoingPosition,
                                    incoming_point.point, incoming_point.shading_normal)
                    weight   == compute_mis_weight(bssrdf_sample.channel, sampling_basis,
                                    sampling_axis, sample_pdf, OutgoingPosition,
                                    incoming_point.point, incoming_point.shading_normal)
                    probability == DblDiv(sample_pdf, weight)
                    draw     == IF bump THEN << [ev |-> "draw", what |-> "bump"] >> ELSE << >>
                    visit    == IF matching
                                THEN << [ev |-> "visit", point |-> incoming_point,
                                         sample_pdf |-> sample_pdf, terms |-> terms,
                                         weight |-> weight, probability |-> probability] >>
                                ELSE << >>
                IN  /\ shading_points' = [cleared EXCEPT ![idx] = incoming_point]
                    /\ log' = Logged(<< call(found) >> \o draw \o visit)
                    \* lines 235-240: advance the ray, swap the shading points
                    /\ probe_ray' = AdvanceRay(probe_ray, incoming_point.point, exit_point)
                    /\ parent_shading_point' = idx
                    /\ shading_point_index' = NextIndex(idx)
                    /\ pc' = TraceBranch(TRUE)
    /\ iter' = iter + 1
    /\ UNCHANGED << scene, scene_normal, with_osl, has_osl_surface, bssrdf_sample,
                    bssrdf_sample_pdf, s, sampling_axis, sampling_basis,
                    sampling_basis_pdf, h, entry_point, exit_point, failed_asserts >>

Next == SampleProfile \/ BuildProbe \/ Trace

Spec == Init /\ [][Next]_vars

(***************************************************************************)
(* pick_sampling_basis on its own, for every scalar of the grid on [0, 1). *)
(***************************************************************************)
\* The hundredths of [0, 1).
Scalars == 0..99

PickInit ==
    /\ scene = << >>
    /\ scene_normal = <<0, 0, 3>>
    /\ with_osl = FALSE
    /\ has_osl_surface = FALSE
    /\ InitLocals
    /\ pc = "basis"
    /\ s \in Scalars

PickBasis ==
    /\ pc = "basis"
    /\ LET picked == pick_sampling_basis(OutgoingShadingBasis, s)
       IN  /\ sampling_axis' = picked.axis
           /\ sampling_basis' = picked.basis
           /\ sampling_basis_pdf' = picked.basis_pdf
    /\ pc' = "picked"
    /\ UNCHANGED << scene, scene_normal, with_osl, has_osl_surface, bssrdf_sample,
                    bssrdf_sample_pdf, s, h, entry_point, exit_point, probe_ray,
                    shading_points, shading_point_index, parent_shading_point,
                    failed_asserts, iter, log >>

PickNext == PickBasis

PickSpec == PickInit /\ [][PickNext]_vars

(***************************************************************************)
(* Reading the log.                                                        *)
(***************************************************************************)
TraceCalls == {i \in 1..Len(log) : log[i].ev = "trace"}
Visits     == {i \in 1..Len(log) : log[i].ev = "visit"}
Draws      == {i \in 1..Len(log) : log[i].ev = "draw"}
TraceHits  == {i \in TraceCalls : log[i].result.hit}

\* The trace() call before call i, or 0 when i is the first.
PrevCall(i) ==
    IF \E j \in TraceCalls : j < i
    THEN CHOOSE j \in TraceCalls : j < i /\ \A l \in TraceCalls : l < i => l <= j
    ELSE 0

\* The events between trace() call i and the next trace() call.
AfterCall(i) ==
    LET later == {j \in TraceCalls : j > i}
        stop  == IF later = {} THEN Len(log) + 1
                 ELSE CHOOSE j \in later : \A l \in later : j <= l
    IN  SubSeq(log, i + 1, stop - 1)

SampleRadius2 ==
    bssrdf_sample.point[1] * bssrdf_sample.point[1]
        + bssrdf_sample.point[2] * bssrdf_sample.point[2]

\* The material on the side of a hit that faces the ray.
RayFacing(sp) ==
    IF sp.side = "BackSide" THEN sp.opposite_material ELSE sp.material

\* Distance of a hit from the entry point of the probe segment.
FromEntry(sp) == Norm(VSub(sp.point, entry_point))

(***************************************************************************)
(* The claims.                                                             *)
(***************************************************************************)
\* C1: when the profile declines or radius^2 > rmax^2, sample() returns without
\* a trace() call, a visit or the axis draw; whenever the sampler has drawn or
\* traced, radius^2 <= rmax^2, and the assert at line 152 has not failed.
C1_EarlyRejection ==
    /\ (~bssrdf_sample.ok \/ SampleRadius2 > bssrdf_sample.rmax2)
          => (log = << >> /\ pc \in {"start", "done"} /\ iter = 0)
    /\ (pc \in {"pick", "trace"} \/ log # << >>)
          => (bssrdf_sample.ok /\ SampleRadius2 <= bssrdf_sample.rmax2)
    /\ 152 \notin failed_asserts

C1_Witness ==
    /\ pc = "done"
    /\ bssrdf_sample.ok
    /\ SampleRadius2 > bssrdf_sample.rmax2
    /\ log = << >>

\* C2: every hit whose ray-facing material is the outgoing material is visited
\* exactly once, right after its trace() call; no other hit is visited; and the
\* loop is only ever left on a miss, never on a hit, matching or not.
C2_VisitMatchingOnly ==
    /\ \A i \in TraceHits :
          LET vs == SelectSeq(AfterCall(i), LAMBDA e : e.ev = "visit")
          IN  IF RayFacing(log[i].result) = OutgoingMaterial
              THEN /\ Len(vs) = 1
                   /\ vs[1].point.surf = log[i].result.surf
                   /\ vs[1].point.point = log[i].result.point
              ELSE vs = << >>
    /\ Cardinality(Visits)
          = Cardinality({i \in TraceHits : RayFacing(log[i].result) = OutgoingMaterial})
    /\ \A i \in TraceHits : pc = "done" => \E j \in TraceCalls : j > i

C2_Witness ==
    /\ pc = "done"
    /\ \E i \in TraceHits, j \in Visits :
          /\ i < j
          /\ RayFacing(log[i].result) # OutgoingMaterial
          /\ FromEntry(log[i].result) < FromEntry(log[j].point)

\* C3: a trace() call that reports no hit is the last event of the call: no
\* trace() and no visit follows it, and sample() has returned.
C3_MissEndsLoop ==
    \A i \in TraceCalls :
        ~log[i].result.hit => (i = Len(log) /\ pc = "done")

C3_Witness ==
    /\ pc = "done"
    /\ Cardinality(TraceCalls) = 1
    /\ Visits = {}
    /\ \E i \in TraceCalls : ~log[i].result.hit
    /\ scene # << >>

\* C4: the visits occur in traversal order, the distance of the visited hit
\* from the entry point never decreasing, and no surface is visited twice.
C4_VisitsInOrder ==
    \A i \in Visits : \A j \in Visits :
        i < j => /\ FromEntry(log[i].point) <= FromEntry(log[j].point)
                 /\ log[i].point.surf # log[j].point.surf

\* C5: pick_sampling_basis maps s <= 0.5 to NAxis, frame (n, u, v), probability
\* 0.5; 0.5 < s <= 0.75 to UAxis, (u, v, n), 0.25; s > 0.75 to VAxis, (v, n, u),
\* 0.25; each probability is the length of the interval of s mapped to its axis,
\* and the three add up to exactly 1.
AxisOf(sv) == pick_sampling_basis(OutgoingShadingBasis, sv).axis
PdfOf(axis) ==
    pick_sampling_basis(OutgoingShadingBasis, CHOOSE sv \in Scalars : AxisOf(sv) = axis).basis_pdf
\* The end of the interval of [0, 1) mapped to an axis (100 for the interval
\* that runs up to 1), and the length of that interval, in hundredths.
UpperEnd(axis) ==
    LET top == CHOOSE sv \in Scalars : AxisOf(sv) = axis /\ \A o \in Scalars : AxisOf(o) = axis => o <= sv
    IN  IF top = 99 THEN 100 ELSE top
LowerEnd(axis) ==
    LET bot == CHOOSE sv \in Scalars : AxisOf(sv) = axis /\ \A o \in Scalars : AxisOf(o) = axis => o >= sv
    IN  IF bot = 0 THEN 0 ELSE bot - 1
C5_PickSamplingBasis ==
    LET n == OutgoingShadingBasis.normal
        u == OutgoingShadingBasis.tangent_u
        v == OutgoingShadingBasis.tangent_v
    IN  pc = "picked" =>
          /\ s <= 50 => /\ sampling_axis = "NAxis"
                        /\ sampling_basis = Basis3d(n, u, v)
                        /\ sampling_basis_pdf = DblMake(1, 2, 0)
          /\ (50 < s /\ s <= 75) => /\ sampling_axis = "UAxis"
                                    /\ sampling_basis = Basis3d(u, v, n)
                                    /\ sampling_basis_pdf = DblMake(1, 4, 0)
          /\ s > 75 => /\ sampling_axis = "VAxis"
                       /\ sampling_basis = Basis3d(v, n, u)
                       /\ sampling_basis_pdf = DblMake(1, 4, 0)
          /\ sampling_basis_pdf
                = DblMake(UpperEnd(sampling_axis) - LowerEnd(sampling_axis), 100, 0)
          /\ DblAdd(DblAdd(PdfOf("NAxis"), PdfOf("UAxis")), PdfOf("VAxis")) = DblMake(1, 1, 0)

C5_Witness ==
    /\ pc = "picked"
    /\ s = 75
    /\ sampling_axis = "UAxis"

\* The draws and visits that follow the trace() call of a hit, when exactly the
\* hits for which bump holds run the bump shader.
ExpectedAfter(i, bump) ==
    LET kinds == [j \in 1..Len(AfterCall(i)) |->
                    IF AfterCall(i)[j].ev = "draw" THEN AfterCall(i)[j].what
                    ELSE AfterCall(i)[j].ev]
        matching == RayFacing(log[i].result) = OutgoingMaterial
    IN  kinds = IF matching /\ bump THEN << "bump", "visit" >>
                ELSE IF matching THEN << "visit" >>
                ELSE << >>

\* The axis draw is the first event and the only axis draw, and precedes
\* every trace() call.
AxisDrawFirst ==
    log # << >> =>
        /\ log[1] = [ev |-> "draw", what |-> "axis"]
        /\ \A i \in Draws : i > 1 => log[i].what = "bump"
        /\ \A i \in 2..Len(log) : log[i].ev = "draw" => \E j \in TraceHits : j < i

\* C6 as stated: one axis draw before the first trace(), then one bump draw for
\* every matching hit, after its trace() and before its visit, none for any
\* other hit, and no other draw.
C6_OneBumpDrawPerMatch ==
    /\ AxisDrawFirst
    /\ \A i \in TraceHits : ExpectedAfter(i, TRUE)

\* C6 amended: as above, but a matching hit has its bump draw exactly when the
\* build has OSL and the material has an OSL surface, and no draw otherwise.
C6_BumpDrawWhenOSL ==
    /\ AxisDrawFirst
    /\ \A i \in TraceHits : ExpectedAfter(i, with_osl /\ has_osl_surface)
    /\ \A i \in TraceCalls : ~log[i].result.hit => AfterCall(i) = << >>

C6_Witness ==
    /\ with_osl /\ has_osl_surface
    /\ \E i \in TraceHits, j \in TraceHits :
          /\ RayFacing(log[i].result) = OutgoingMaterial
          /\ RayFacing(log[j].result) # OutgoingMaterial
    /\ \E i \in Draws : log[i].what = "bump"

\* C7: the tracer always reaches "done".  A loop that calls trace() with the
\* ray, the hint and the slot of an earlier call has returned to a state it
\* was in, and trace() being a function of the scene, the ray and the hint,
\* it never ends; so no call may repeat an earlier one.
C7_LoopEnds ==
    \A i \in TraceCalls : \A j \in TraceCalls :
        i < j => ~(/\ log[i].ray = log[j].ray
                   /\ log[i].slot = log[j].slot
                   /\ log[i].hint = log[j].hint
                   /\ log[i].hint_point = log[j].hint_point)

\* C8: for every visited hit whose three terms are finite and positive, the
\* weight of compute_mis_weight is finite, positive and at most 1, and the
\* probability handed to the visitor is finite and positive.
C8_WeightFinite ==
    \A i \in Visits :
        (\A k \in 1..3 : DblIsFinitePos(log[i].terms[k]))
            => /\ DblIsFinitePos(log[i].weight)
               /\ DblLeOne(log[i].weight)
               /\ DblIsFinitePos(log[i].probability)

\* C9: the first trace() gets a null hint; every later one gets as hint the
\* shading point the call before it filled, and writes to the other slot, so
\* the hint still holds that hit when trace() reads it.
C9_HintAndSlots ==
    \A i \in TraceCalls :
        IF PrevCall(i) = 0
        THEN log[i].hint = NullPoint
        ELSE LET prev == log[PrevCall(i)]
             IN  /\ prev.result.hit
                 /\ log[i].hint = prev.slot
                 /\ log[i].slot # log[i].hint
                 /\ log[i].hint_point.hit
                 /\ log[i].hint_point.surf = prev.result.surf
                 /\ log[i].hint_point.point = prev.result.point

C9_Witness ==
    /\ Cardinality(TraceCalls) >= 3
    /\ \E i \in TraceCalls : log[i].hint = 0
    /\ \E i \in TraceCalls : log[i].hint = 1

\* C10: the ray starts at the entry point with range 2h; after a hit its origin
\* is the hit point and its range the distance to the exit point, the rest of
\* the ray unchanged; so origin + range * direction is always the exit point,
\* the range never grows, and no hit lies beyond the exit point.
C10_RayAdvance ==
    \A i \in TraceCalls :
        LET ray == log[i].ray
        IN  /\ ray.m_dir = VNeg(sampling_basis.normal)
            /\ ray.m_tmin = 0
            /\ ray.m_time = OutgoingTime
            /\ ray.m_flags = "ProbeRay"
            /\ ray.m_depth = OutgoingDepth + 1
            /\ VAdd(ray.m_org, VScale(ray.m_tmax, ray.m_dir)) = exit_point
            /\ IF PrevCall(i) = 0
               THEN ray.m_org = entry_point /\ ray.m_tmax = 2 * h
               ELSE LET prev == log[PrevCall(i)]
                    IN  /\ ray.m_org = prev.result.point
                        /\ ray.m_tmax <= prev.ray.m_tmax
            /\ log[i].result.hit =>
                  /\ FromEntry(log[i].result) <= 2 * h
                  /\ VAdd(entry_point, VScale(FromEntry(log[i].result), ray.m_dir))
                        = log[i].result.point

C10_Witness ==
    /\ h = 1
    /\ \E i \in TraceCalls : \E j \in TraceCalls :
          /\ i < j
          /\ log[j].ray.m_tmax < log[i].ray.m_tmax
          /\ log[j].ray.m_tmax > 0
    /\ \E k \in DOMAIN scene : scene[k].dist > 2 * h

====
